---- MODULE Spec2Model ----
(***************************************************************************)
(* Client-side Reciprocal Rank Fusion of the pgvector-semantic-search      *)
(* skill (skills/pgvector-semantic-search/SKILL.md, "RRF Query Pattern"    *)
(* and "Weighting Keyword vs Semantic").                                   *)
(*                                                                         *)
(* The caller runs a keyword query and a semantic query in parallel and    *)
(* then calls rrfFusion on the two row lists.  rrfFusion is modelled as    *)
(* the TypeScript snippet computes it: two forEach passes over Maps that   *)
(* keep insertion order, a stable sort by descending score and a slice.    *)
(* The weighted snippet only multiplies each pass's contribution, so the   *)
(* weights are arguments of the modelled function (1.0 each by default).   *)
(*                                                                         *)
(* Scores are exact fractions <<numerator, denominator>> with a positive   *)
(* denominator.  The snippet works in IEEE doubles; for the small integer  *)
(* weights, k and ranks enumerated here a correctly rounded division and   *)
(* a single addition order and compare as the exact values do.            *)
(***************************************************************************)
EXTENDS Integers, Sequences, FiniteSets

VARIABLES
    pending,          \* retrievals the caller still waits for
    failed,           \* retrievals that failed and were replaced by an empty list
    keywordResults,   \* rows of Query 1 (BM25), best first
    semanticResults,  \* rows of Query 2 (vector), best first
    pc,               \* "retrieving" | "returned"
    k,                \* rrfFusion argument k
    limit,            \* rrfFusion argument limit
    keywordWeight,    \* contribution multiplier of the keyword pass
    semanticWeight,   \* contribution multiplier of the semantic pass
    scores,           \* Map<number, number> after both passes
    contentMap,       \* Map<number, string> after both passes
    sorted,           \* [...scores.entries()].sort(...) before the slice
    result,           \* the Result[] returned
    completed,        \* the retrievals in the order they completed (when recorded)
    pyOutcome         \* what the Python rrf_fusion gives on the same call (when run)

rrfVars == <<pending, failed, keywordResults, semanticResults, pc, k, limit,
             keywordWeight, semanticWeight, scores, contentMap, sorted, result>>

\* search_docs (src/apis/searchDocs.ts)
VARIABLES
    sdPc,             \* "idle" | "embedding" | "querying" | "returned" | "thrown"
    sdArgs,           \* the arguments of the call
    embedStatus,      \* "none" | "pending" | "resolved" | "rejected"
    embedLog,         \* the values passed to embed(), in call order
    embedding,        \* what embed() resolved to
    dbQueries,        \* the queries passed to pgPool.query(), in call order
    sdResults,        \* the rows returned to the caller
    sdError           \* the error thrown to the caller

searchVars == <<sdPc, sdArgs, embedStatus, embedLog, embedding, dbQueries, sdResults, sdError>>

\* the BM25 migration (up and down)
VARIABLES
    migPc,            \* "idle" | "connect" | "statements" | "finally" | "settled"
    migFn,            \* "up" | "down"
    migRuns,          \* how many times up() or down() has been called
    migNext,          \* index of the next statement of the running function
    migLog,           \* the client calls made by the running function, in order
    migError,         \* the error thrown inside the try block, "none" if none
    migOutcome,       \* "none" | "resolved" | "rejected"
    migThrown,        \* the error the caller receives
    extensions,       \* extensions installed in the database
    indexes           \* BM25 indexes that exist in the database

migrationVars == <<migPc, migFn, migRuns, migNext, migLog, migError, migOutcome, migThrown,
                   extensions, indexes>>

vars == <<rrfVars, completed, pyOutcome, searchVars, migrationVars>>

----------------------------------------------------------------------------
(* Bounds of the enumeration *)

MaxId == 3

MaxLen == 2

MaxLimit == 2

(* Program constants *)

DefaultK == 60

DefaultLimit == 10

DefaultWeight == 1

\* const semanticWeight = 2.0
BoostedWeight == 2

Ids == 1..MaxId

\* The documents table as seen by a query: a row's content under a snapshot.
\* Content is opaque to the fusion, only whether the two lists agree on it
\* matters: the keyword query reads the first snapshot, the semantic query
\* reads either.
Snapshots == {"s1", "s2"}

KeywordSnapshots == {"s1"}

Content(id, snap) == <<id, snap>>

KValues == {0, 1, DefaultK}

\* a negative weight, a weight of 0, and the two weights the skill uses
Weights == {0 - 1, 0, DefaultWeight, BoostedWeight}

Limits == ((0 - 1)..MaxLimit) \cup {DefaultLimit}

Min(a, b) == IF a <= b THEN a ELSE b

Max(a, b) == IF a >= b THEN a ELSE b

----------------------------------------------------------------------------
(* Number arithmetic: exact fractions with a positive denominator; a       *)
(* denominator of 0 is an infinity of the numerator's sign (<<0, 0>>: NaN)  *)

Zero == <<0, 1>>

Sign(n) == IF n > 0 THEN 1 ELSE IF n < 0 THEN 0 - 1 ELSE 0

\* n / d on doubles, n and d integers
Divide(n, d) ==
    IF d > 0 THEN <<n, d>>
    ELSE IF d < 0 THEN <<0 - n, 0 - d>>
    ELSE <<Sign(n), 0>>

FracAdd(a, b) ==
    IF a[2] = 0 /\ b[2] = 0
    THEN (IF Sign(a[1]) = Sign(b[1]) THEN <<Sign(a[1]), 0>> ELSE <<0, 0>>)
    ELSE <<a[1] * b[2] + b[1] * a[2], a[2] * b[2]>>

FracEq(a, b) == a[1] * b[2] = b[1] * a[2]

FracLess(a, b) == a[1] * b[2] < b[1] * a[2]

----------------------------------------------------------------------------
(* What a retrieval query can return: SELECT id, content FROM documents    *)
(* ORDER BY ... LIMIT n over a table whose id is the primary key, so no id *)
(* occurs twice in one list.                                               *)

IdLists ==
    UNION { { s \in [1..n -> Ids] : \A a, b \in 1..n : s[a] = s[b] => a = b }
            : n \in 0..MaxLen }

Rows(ids, snap) == [j \in 1..Len(ids) |-> [id |-> ids[j], content |-> Content(ids[j], snap)]]

QueryResults(snaps) == { Rows(ids, snap) : ids \in IdLists, snap \in snaps }

IdsOf(rows) == { rows[j].id : j \in 1..Len(rows) }

----------------------------------------------------------------------------
(* A JavaScript Map: keys in insertion order, and the value of each key *)

EmptyMap == [keys |-> <<>>, vals |-> [x \in {} |-> Zero]]

MapHas(m, key) == key \in DOMAIN m.vals

MapSet(m, key, v) ==
    [keys |-> IF MapHas(m, key) THEN m.keys ELSE Append(m.keys, key),
     vals |-> [x \in (DOMAIN m.vals) \cup {key} |-> IF x = key THEN v ELSE m.vals[x]]]

\* scores.get(id) ?? 0
GetOrZero(m, key) == IF MapHas(m, key) THEN m.vals[key] ELSE Zero

----------------------------------------------------------------------------
(* The two forEach passes *)

Contribution_ZeroBasedRank(weight, kk, i) == <<weight, kk + i>>

Contribution_Unweighted(weight, kk, i) == <<1, kk + i + 1>>

\* weight / (k + i + 1), i the 0-based index of the row
Contribution(weight, kk, i) == Divide(weight, kk + i + 1)

Accumulate_Overwrite(prev, c) == c

\* (scores.get(row.id) ?? 0) + contribution
Accumulate(prev, c) == FracAdd(prev, c)

RecordContent_FirstWriter(cm, row) ==
    IF MapHas(cm, row.id) THEN cm ELSE MapSet(cm, row.id, row.content)

\* contentMap.set(row.id, row.content)
RecordContent(cm, row) == MapSet(cm, row.id, row.content)

RECURSIVE ForEachRow(_, _, _, _, _)
ForEachRow(rows, i, weight, kk, st) ==
    IF i >= Len(rows) THEN st
    ELSE LET row == rows[i + 1]
             sc  == MapSet(st.scores, row.id,
                           Accumulate(GetOrZero(st.scores, row.id),
                                      Contribution(weight, kk, i)))
             cm  == RecordContent(st.contentMap, row)
         IN ForEachRow(rows, i + 1, weight, kk, [scores |-> sc, contentMap |-> cm])

Passes_SharedWeight(kwRows, semRows, kk, kwWeight, semWeight) ==
    ForEachRow(semRows, 0, kwWeight, kk,
               ForEachRow(kwRows, 0, kwWeight, kk,
                          [scores |-> EmptyMap, contentMap |-> EmptyMap]))

Passes_SwappedWeights(kwRows, semRows, kk, kwWeight, semWeight) ==
    ForEachRow(semRows, 0, kwWeight, kk,
               ForEachRow(kwRows, 0, semWeight, kk,
                          [scores |-> EmptyMap, contentMap |-> EmptyMap]))

\* both passes, keyword list first
Passes(kwRows, semRows, kk, kwWeight, semWeight) ==
    ForEachRow(semRows, 0, semWeight, kk,
               ForEachRow(kwRows, 0, kwWeight, kk,
                          [scores |-> EmptyMap, contentMap |-> EmptyMap]))

----------------------------------------------------------------------------
(* [...scores.entries()].sort((a, b) => b[1] - a[1]).slice(0, limit).map(...) *)

IsPositiveEntry(e) == e[2][1] > 0

Entries_PositiveOnly(m) ==
    SelectSeq([j \in 1..Len(m.keys) |-> <<m.keys[j], m.vals[m.keys[j]]>>], IsPositiveEntry)

\* scores.entries(): the pairs [id, score] in insertion order
Entries(m) == [j \in 1..Len(m.keys) |-> <<m.keys[j], m.vals[m.keys[j]]>>]

InsertStable_TiesReversed(out, e) ==
    LET after == { j \in 1..Len(out) : ~FracLess(e[2], out[j][2]) }
        pos   == IF after = {} THEN Len(out) + 1
                 ELSE CHOOSE j \in after : \A j2 \in after : j <= j2
    IN SubSeq(out, 1, pos - 1) \o <<e>> \o SubSeq(out, pos, Len(out))

\* Array.prototype.sort is stable: an entry goes after every entry that the
\* comparator does not order after it.
InsertStable(out, e) ==
    LET after == { j \in 1..Len(out) : FracLess(out[j][2], e[2]) }
        pos   == IF after = {} THEN Len(out) + 1
                 ELSE CHOOSE j \in after : \A j2 \in after : j <= j2
    IN SubSeq(out, 1, pos - 1) \o <<e>> \o SubSeq(out, pos, Len(out))

RECURSIVE SortFrom(_, _, _)
SortFrom(entries, j, out) ==
    IF j > Len(entries) THEN out
    ELSE SortFrom(entries, j + 1, InsertStable(out, entries[j]))

SortDesc_Unsorted(entries) == entries

SortDesc(entries) == SortFrom(entries, 1, <<>>)

Slice_OneMore(arr, end) ==
    LET stop == IF end < 0 THEN Max(Len(arr) + end, 0) ELSE Min(end + 1, Len(arr))
    IN SubSeq(arr, 1, stop)

\* Array.prototype.slice(0, end): a negative end counts from the end
Slice(arr, end) ==
    LET stop == IF end < 0 THEN Max(Len(arr) + end, 0) ELSE Min(end, Len(arr))
    IN SubSeq(arr, 1, stop)

ToResult(entry, cm) == [id |-> entry[1], content |-> cm.vals[entry[1]], score |-> entry[2]]

rrfFusion(kwRows, semRows, kk, lim, kwWeight, semWeight) ==
    LET st  == Passes(kwRows, semRows, kk, kwWeight, semWeight)
        srt == SortDesc(Entries(st.scores))
        cut == Slice(srt, lim)
    IN [scores |-> st.scores, contentMap |-> st.contentMap, sorted |-> srt,
        result |-> [j \in 1..Len(cut) |-> ToResult(cut[j], st.contentMap)]]

----------------------------------------------------------------------------
(* search_docs: src/apis/searchDocs.ts *)

MaxPassedLimit == 2

MaxQueryLen == 2

MaxRows == 3

\* passedLimit > 0 ? passedLimit : 10
FallbackLimit == 10

pg_versions == <<"14", "15", "16", "17", "18">>

latest_pg_version_First == pg_versions[1]

\* pg_versions.at(-1)
latest_pg_version == pg_versions[Len(pg_versions)]

versions == { pg_versions[j] : j \in 1..Len(pg_versions) } \cup {"latest"}

Sources == {"tiger", "postgres"}

SearchTypes == {"semantic", "keyword"}

PassedLimits == (0 - 1)..MaxPassedLimit

\* a query string is a sequence of characters: a space, a tab or a letter
Whitespace == {"SP", "TAB"}

Chars == Whitespace \cup {"a"}

Queries == UNION { [1..n -> Chars] : n \in 0..MaxQueryLen }

\* what embed() can resolve to
Embeddings == {"e1", "e2"}

\* JSON.stringify(embedding)
Stringify(e) == <<"json", e>>

RECURSIVE TrimStart(_)
TrimStart(q) ==
    IF q # <<>> /\ q[1] \in Whitespace THEN TrimStart(SubSeq(q, 2, Len(q))) ELSE q

RECURSIVE TrimEnd(_)
TrimEnd(q) ==
    IF q # <<>> /\ q[Len(q)] \in Whitespace THEN TrimEnd(SubSeq(q, 1, Len(q) - 1)) ELSE q

Trim_None(q) == q

\* String.prototype.trim
Trim(q) == TrimEnd(TrimStart(q))

EffectiveLimit_NonNegative(passedLimit) == IF passedLimit >= 0 THEN passedLimit ELSE FallbackLimit

\* const limit = passedLimit > 0 ? passedLimit : 10
EffectiveLimit(passedLimit) == IF passedLimit > 0 THEN passedLimit ELSE FallbackLimit

\* const version = passedVersion === 'latest' ? latest_pg_version : passedVersion
EffectiveVersion(passedVersion) ==
    IF passedVersion = "latest" THEN latest_pg_version ELSE passedVersion

NeedsEmbedding_Always(search_type) == TRUE

\* if (search_type === 'semantic') { ... await embed(...) ... }
NeedsEmbedding(search_type) == search_type = "semantic"

QueryError == "Query must be a non-empty string."

\* the pgPool.query call of each of the four branches: the text's FROM, WHERE
\* and ORDER BY, the parameter list, and which parameter the text's LIMIT names
IssuedQuery(args, emb) ==
    LET lim   == EffectiveLimit(args.limit)
        ver   == EffectiveVersion(args.version)
        first == IF args.search_type = "semantic" THEN Stringify(emb) ELSE args.query
        order == IF args.search_type = "semantic" THEN "distance" ELSE "bm25"
    IN IF args.source = "tiger"
       THEN [from |-> "timescale_chunks", where |-> "none", orderBy |-> order,
             params |-> <<first, lim>>, limitParam |-> 2]
       ELSE [from |-> "postgres_chunks JOIN postgres_pages", where |-> "p.version = $2",
             orderBy |-> order, params |-> <<first, ver, lim>>, limitParam |-> 3]

LimitOf(q) == q.params[q.limitParam]

\* rows of a SELECT ... LIMIT n over `matching` candidate rows
RowsReturned(matching, lim) == [j \in 1..Min(matching, Max(lim, 0)) |-> j]

SearchDocsIdle ==
    /\ sdPc = "idle"
    /\ sdArgs = [source |-> "tiger", search_type |-> "keyword", query |-> <<>>,
                 version |-> "latest", limit |-> 0]
    /\ embedStatus = "none"
    /\ embedLog = <<>>
    /\ embedding = "none"
    /\ dbQueries = <<>>
    /\ sdResults = <<>>
    /\ sdError = "none"

\* fn, up to its first await (or its throw)
SearchDocsCall ==
    /\ sdPc = "idle"
    /\ \E source \in Sources, search_type \in SearchTypes, query \in Queries,
          passedVersion \in versions, passedLimit \in PassedLimits :
         LET args == [source |-> source, search_type |-> search_type, query |-> query,
                      version |-> passedVersion, limit |-> passedLimit]
         IN /\ sdArgs' = args
            /\ IF Trim(query) = <<>>
               THEN /\ sdPc' = "thrown"
                    /\ sdError' = QueryError
                    /\ UNCHANGED <<embedStatus, embedLog, dbQueries>>
               ELSE IF NeedsEmbedding(search_type)
               THEN /\ sdPc' = "embedding"
                    /\ embedStatus' = "pending"
                    /\ embedLog' = Append(embedLog, query)
                    /\ UNCHANGED <<dbQueries, sdError>>
               ELSE /\ sdPc' = "querying"
                    /\ dbQueries' = Append(dbQueries, IssuedQuery(args, embedding))
                    /\ UNCHANGED <<embedStatus, embedLog, sdError>>
    /\ UNCHANGED <<embedding, sdResults>>

\* await embed(...) resolves: the query of the source's branch is issued
EmbedResolved ==
    /\ sdPc = "embedding"
    /\ \E e \in Embeddings :
         /\ embedding' = e
         /\ dbQueries' = Append(dbQueries, IssuedQuery(sdArgs, e))
    /\ embedStatus' = "resolved"
    /\ sdPc' = "querying"
    /\ UNCHANGED <<sdArgs, embedLog, sdResults, sdError>>

\* await embed(...) rejects: nothing catches it
EmbedRejected ==
    /\ sdPc = "embedding"
    /\ embedStatus' = "rejected"
    /\ sdPc' = "thrown"
    /\ sdError' = "embed rejected"
    /\ UNCHANGED <<sdArgs, embedLog, embedding, dbQueries, sdResults>>

\* await pgPool.query(...) resolves: return { results: result.rows }
QueryResolved ==
    /\ sdPc = "querying"
    /\ \E matching \in 0..MaxRows :
         sdResults' = RowsReturned(matching, LimitOf(dbQueries[Len(dbQueries)]))
    /\ sdPc' = "returned"
    /\ UNCHANGED <<sdArgs, embedStatus, embedLog, embedding, dbQueries, sdError>>

\* await pgPool.query(...) rejects: nothing catches it
QueryRejected ==
    /\ sdPc = "querying"
    /\ sdPc' = "thrown"
    /\ sdError' = "query rejected"
    /\ UNCHANGED <<sdArgs, embedStatus, embedLog, embedding, dbQueries, sdResults>>

----------------------------------------------------------------------------
(* The migration "Add pg_textsearch + BM25 indexes on docs content" *)

MaxRuns == 3

CreateExtension == "CREATE EXTENSION IF NOT EXISTS pg_textsearch"

CreateTimescaleIndex == "CREATE INDEX CONCURRENTLY IF NOT EXISTS timescale_chunks_content_idx"

CreatePostgresIndex == "CREATE INDEX CONCURRENTLY IF NOT EXISTS postgres_chunks_content_idx"

DropTimescaleIndex == "DROP INDEX CONCURRENTLY IF EXISTS timescale_chunks_content_idx"

DropPostgresIndex == "DROP INDEX CONCURRENTLY IF EXISTS postgres_chunks_content_idx"

\* the client.query calls of up(), in program order
UpStatements == <<CreateExtension, CreateTimescaleIndex, CreatePostgresIndex>>

\* the client.query calls of down(), in program order
DownStatements == <<DropTimescaleIndex, DropPostgresIndex>>

StatementsOf(fn) == IF fn = "up" THEN UpStatements ELSE DownStatements

IndexOf(stmt) ==
    IF stmt \in {CreateTimescaleIndex, DropTimescaleIndex}
    THEN "timescale_chunks_content_idx" ELSE "postgres_chunks_content_idx"

\* USING bm25 needs the access method that pg_textsearch installs
CanSucceed(stmt, exts) ==
    stmt \in {CreateTimescaleIndex, CreatePostgresIndex} => "pg_textsearch" \in exts

ExtensionsAfter(stmt, exts) ==
    IF stmt = CreateExtension THEN exts \cup {"pg_textsearch"} ELSE exts

IndexesAfter(stmt, idx) ==
    IF stmt \in {CreateTimescaleIndex, CreatePostgresIndex} THEN idx \cup {IndexOf(stmt)}
    ELSE IF stmt \in {DropTimescaleIndex, DropPostgresIndex} THEN idx \ {IndexOf(stmt)}
    ELSE idx

AfterThrow_NoFinally == "settled"

\* a rejected await inside try { ... } leaves the block for finally { ... }
AfterThrow == "finally"

MigrationIdle ==
    /\ migPc = "idle"
    /\ migFn = "up"
    /\ migRuns = 0
    /\ migNext = 1
    /\ migLog = <<>>
    /\ migError = "none"
    /\ migOutcome = "none"
    /\ migThrown = "none"
    /\ extensions = {}
    /\ indexes = {}

\* up() or down() is called: const client = new Client()
MigrationCall ==
    /\ migPc \in {"idle", "settled"}
    /\ migRuns < MaxRuns
    /\ migRuns' = migRuns + 1
    /\ \E fn \in {"up", "down"} : migFn' = fn
    /\ migPc' = "connect"
    /\ migNext' = 1
    /\ migLog' = <<>>
    /\ migError' = "none"
    /\ migOutcome' = "none"
    /\ migThrown' = "none"
    /\ UNCHANGED <<extensions, indexes>>

\* await client.connect() resolves
ConnectResolved ==
    /\ migPc = "connect"
    /\ migLog' = Append(migLog, "connect")
    /\ migPc' = "statements"
    /\ UNCHANGED <<migFn, migRuns, migNext, migError, migOutcome, migThrown, extensions, indexes>>

\* await client.connect() rejects
ConnectRejected ==
    /\ migPc = "connect"
    /\ migLog' = Append(migLog, "connect")
    /\ migError' = "connect"
    /\ migPc' = AfterThrow
    /\ UNCHANGED <<migFn, migRuns, migNext, migOutcome, migThrown, extensions, indexes>>

\* await client.query(...) resolves: the statement took effect
StatementResolved ==
    /\ migPc = "statements"
    /\ LET stmt == StatementsOf(migFn)[migNext]
       IN /\ CanSucceed(stmt, extensions)
          /\ migLog' = Append(migLog, stmt)
          /\ extensions' = ExtensionsAfter(stmt, extensions)
          /\ indexes' = IndexesAfter(stmt, indexes)
    /\ migNext' = migNext + 1
    /\ migPc' = IF migNext = Len(StatementsOf(migFn)) THEN "finally" ELSE "statements"
    /\ UNCHANGED <<migFn, migRuns, migError, migOutcome, migThrown>>

\* await client.query(...) rejects
StatementRejected ==
    /\ migPc = "statements"
    /\ LET stmt == StatementsOf(migFn)[migNext]
       IN /\ migLog' = Append(migLog, stmt)
          /\ migError' = stmt
    /\ migPc' = AfterThrow
    /\ UNCHANGED <<migFn, migRuns, migNext, migOutcome, migThrown, extensions, indexes>>

\* finally { await client.end() }: pg's end() only ever resolves; then the
\* function returns, or rethrows what the try block threw
ClientEnd ==
    /\ migPc = "finally"
    /\ migLog' = Append(migLog, "end")
    /\ migPc' = "settled"
    /\ migOutcome' = IF migError = "none" THEN "resolved" ELSE "rejected"
    /\ migThrown' = migError
    /\ UNCHANGED <<migFn, migRuns, migNext, migError, extensions, indexes>>

----------------------------------------------------------------------------
(* The Python snippet: rrf_fusion(keyword_results, semantic_results, k, limit) *)

\* 1 / (k + rank): true division, ZeroDivisionError on a zero divisor
PyRaises(kk, rank) == kk + rank = 0

PyTrueDivide(n, d) == IF d > 0 THEN <<n, d>> ELSE <<0 - n, 0 - d>>

\* for rank, row in enumerate(rows, start=1): ...
RECURSIVE py_enumerate(_, _, _, _)
py_enumerate(rows, rank, kk, st) ==
    IF st.raised \/ rank > Len(rows) THEN st
    ELSE IF PyRaises(kk, rank) THEN [st EXCEPT !.raised = TRUE]
    ELSE LET row == rows[rank]
             sc  == MapSet(st.scores, row.id,
                           FracAdd(GetOrZero(st.scores, row.id), PyTrueDivide(1, kk + rank)))
             cm  == MapSet(st.content_map, row.id, row.content)
         IN py_enumerate(rows, rank + 1, kk, [raised |-> FALSE, scores |-> sc, content_map |-> cm])

Reverse(seq) == [j \in 1..Len(seq) |-> seq[Len(seq) + 1 - j]]

\* list.sort is stable and ascending: a key goes after every key not greater
py_insert(out, key, sc) ==
    LET greater == { j \in 1..Len(out) : FracLess(sc.vals[key], sc.vals[out[j]]) }
        pos     == IF greater = {} THEN Len(out) + 1
                   ELSE CHOOSE j \in greater : \A j2 \in greater : j <= j2
    IN SubSeq(out, 1, pos - 1) \o <<key>> \o SubSeq(out, pos, Len(out))

RECURSIVE py_sort(_, _, _, _)
py_sort(keys, j, out, sc) ==
    IF j > Len(keys) THEN out
    ELSE py_sort(keys, j + 1, py_insert(out, keys[j], sc), sc)

\* sorted(scores, key=scores.get, reverse=True): the reversed list is sorted
\* ascending and the outcome reversed, which keeps equal keys in their order
py_sorted_reverse(sc) == Reverse(py_sort(Reverse(sc.keys), 1, <<>>, sc))

\* list[:limit]
py_slice(list, lim) ==
    LET stop == IF lim < 0 THEN Max(Len(list) + lim, 0) ELSE Min(lim, Len(list))
    IN [j \in 1..stop |-> list[j]]

rrf_fusion(keyword_results, semantic_results, kk, lim) ==
    LET st == py_enumerate(semantic_results, 1, kk,
                  py_enumerate(keyword_results, 1, kk,
                      [raised |-> FALSE, scores |-> EmptyMap, content_map |-> EmptyMap]))
    IN IF st.raised THEN [raised |-> "ZeroDivisionError", value |-> <<>>]
       ELSE LET sorted_ids == py_slice(py_sorted_reverse(st.scores), lim)
            IN [raised |-> "none",
                value |-> [j \in 1..Len(sorted_ids) |->
                             [id |-> sorted_ids[j],
                              content |-> st.content_map.vals[sorted_ids[j]],
                              score |-> st.scores.vals[sorted_ids[j]]]]]

NotRun == [raised |-> "none", value |-> <<>>]

\* k values for the comparison of the snippets: the negatives of the ranks too
SnippetKValues == KValues \cup {0 - 1, 0 - 2}

----------------------------------------------------------------------------
(* The caller: both queries in flight, then one fusion *)

\* rrfFusion(keywordResults, semanticResults, ...): each query's rows go to
\* the parameter of its method, whichever query completed first
FusionArguments_ByCompletion(kwRows, semRows, order) ==
    IF order # <<>> /\ order[1] = "semantic" THEN <<semRows, kwRows>> ELSE <<kwRows, semRows>>

FusionArguments(kwRows, semRows, order) == <<kwRows, semRows>>

Init ==
    /\ pending = {"keyword", "semantic"}
    /\ failed = {}
    /\ keywordResults = <<>>
    /\ semanticResults = <<>>
    /\ pc = "retrieving"
    /\ k = DefaultK
    /\ limit = DefaultLimit
    /\ keywordWeight = DefaultWeight
    /\ semanticWeight = DefaultWeight
    /\ scores = EmptyMap
    /\ contentMap = EmptyMap
    /\ sorted = <<>>
    /\ result = <<>>
    /\ completed = <<>>
    /\ pyOutcome = NotRun
    /\ SearchDocsIdle
    /\ MigrationIdle

KeywordQueryDone ==
    /\ pc = "retrieving"
    /\ "keyword" \in pending
    /\ \E rows \in QueryResults(KeywordSnapshots) : keywordResults' = rows
    /\ pending' = pending \ {"keyword"}
    /\ UNCHANGED <<failed, semanticResults, pc, k, limit, keywordWeight,
                   semanticWeight, scores, contentMap, sorted, result>>

SemanticQueryDone ==
    /\ pc = "retrieving"
    /\ "semantic" \in pending
    /\ \E rows \in QueryResults(Snapshots) : semanticResults' = rows
    /\ pending' = pending \ {"semantic"}
    /\ UNCHANGED <<failed, keywordResults, pc, k, limit, keywordWeight,
                   semanticWeight, scores, contentMap, sorted, result>>

\* The caller degrades gracefully: a failed retrieval counts as an empty list.
KeywordQueryFailed ==
    /\ pc = "retrieving"
    /\ "keyword" \in pending
    /\ keywordResults' = <<>>
    /\ pending' = pending \ {"keyword"}
    /\ failed' = failed \cup {"keyword"}
    /\ UNCHANGED <<semanticResults, pc, k, limit, keywordWeight,
                   semanticWeight, scores, contentMap, sorted, result>>

SemanticQueryFailed ==
    /\ pc = "retrieving"
    /\ "semantic" \in pending
    /\ semanticResults' = <<>>
    /\ pending' = pending \ {"semantic"}
    /\ failed' = failed \cup {"semantic"}
    /\ UNCHANGED <<keywordResults, pc, k, limit, keywordWeight,
                   semanticWeight, scores, contentMap, sorted, result>>

\* the call of rrfFusion once both queries are back, its arguments drawn from
\* the given sets
FuseWith(kwWeights, semWeights) ==
    /\ pc = "retrieving"
    /\ pending = {}
    /\ \E kk \in KValues, lim \in Limits, kwWeight \in kwWeights, semWeight \in semWeights :
         LET args == FusionArguments(keywordResults, semanticResults, completed)
             r    == rrfFusion(args[1], args[2], kk, lim, kwWeight, semWeight)
         IN /\ k' = kk
            /\ limit' = lim
            /\ keywordWeight' = kwWeight
            /\ semanticWeight' = semWeight
            /\ scores' = r.scores
            /\ contentMap' = r.contentMap
            /\ sorted' = r.sorted
            /\ result' = r.result
    /\ pc' = "returned"
    /\ UNCHANGED <<pending, failed, keywordResults, semanticResults>>

Fuse == FuseWith(Weights, Weights)

\* the weights the skill shows: keyword 1.0, semantic 1.0 or 2.0
FuseAsDocumented == FuseWith({DefaultWeight}, {DefaultWeight, BoostedWeight})

\* the same call given to both snippets (no weights: the two base snippets)
FuseBoth ==
    /\ pc = "retrieving"
    /\ pending = {}
    /\ \E kk \in SnippetKValues, lim \in Limits :
         LET r == rrfFusion(keywordResults, semanticResults, kk, lim, DefaultWeight, DefaultWeight)
         IN /\ k' = kk
            /\ limit' = lim
            /\ scores' = r.scores
            /\ contentMap' = r.contentMap
            /\ sorted' = r.sorted
            /\ result' = r.result
            /\ pyOutcome' = rrf_fusion(keywordResults, semanticResults, kk, lim)
    /\ pc' = "returned"
    /\ UNCHANGED <<pending, failed, keywordResults, semanticResults,
                   keywordWeight, semanticWeight>>

Elsewhere == <<searchVars, migrationVars>>

Next ==
    \/ KeywordQueryDone /\ UNCHANGED <<completed, pyOutcome, Elsewhere>>
    \/ SemanticQueryDone /\ UNCHANGED <<completed, pyOutcome, Elsewhere>>
    \/ KeywordQueryFailed /\ UNCHANGED <<completed, pyOutcome, Elsewhere>>
    \/ SemanticQueryFailed /\ UNCHANGED <<completed, pyOutcome, Elsewhere>>
    \/ Fuse /\ UNCHANGED <<completed, pyOutcome, Elsewhere>>

Spec == Init /\ [][Next]_vars

\* the same caller, with the order of completion recorded
ConcurrentNext ==
    \/ KeywordQueryDone /\ completed' = Append(completed, "keyword")
                        /\ UNCHANGED <<pyOutcome, Elsewhere>>
    \/ SemanticQueryDone /\ completed' = Append(completed, "semantic")
                         /\ UNCHANGED <<pyOutcome, Elsewhere>>
    \/ KeywordQueryFailed /\ completed' = Append(completed, "keyword")
                          /\ UNCHANGED <<pyOutcome, Elsewhere>>
    \/ SemanticQueryFailed /\ completed' = Append(completed, "semantic")
                           /\ UNCHANGED <<pyOutcome, Elsewhere>>
    \/ FuseAsDocumented /\ UNCHANGED <<completed, pyOutcome, Elsewhere>>

ConcurrentSpec == Init /\ [][ConcurrentNext]_vars

\* both snippets run on what the two queries returned
SnippetsNext ==
    \/ KeywordQueryDone /\ UNCHANGED <<completed, pyOutcome, Elsewhere>>
    \/ SemanticQueryDone /\ UNCHANGED <<completed, pyOutcome, Elsewhere>>
    \/ FuseBoth /\ UNCHANGED <<completed, Elsewhere>>

SnippetsSpec == Init /\ [][SnippetsNext]_vars

SearchNext ==
    \/ SearchDocsCall /\ UNCHANGED <<rrfVars, completed, pyOutcome, migrationVars>>
    \/ EmbedResolved /\ UNCHANGED <<rrfVars, completed, pyOutcome, migrationVars>>
    \/ EmbedRejected /\ UNCHANGED <<rrfVars, completed, pyOutcome, migrationVars>>
    \/ QueryResolved /\ UNCHANGED <<rrfVars, completed, pyOutcome, migrationVars>>
    \/ QueryRejected /\ UNCHANGED <<rrfVars, completed, pyOutcome, migrationVars>>

SearchSpec == Init /\ [][SearchNext]_vars

MigrationNext ==
    \/ MigrationCall /\ UNCHANGED <<rrfVars, completed, pyOutcome, searchVars>>
    \/ ConnectResolved /\ UNCHANGED <<rrfVars, completed, pyOutcome, searchVars>>
    \/ ConnectRejected /\ UNCHANGED <<rrfVars, completed, pyOutcome, searchVars>>
    \/ StatementResolved /\ UNCHANGED <<rrfVars, completed, pyOutcome, searchVars>>
    \/ StatementRejected /\ UNCHANGED <<rrfVars, completed, pyOutcome, searchVars>>
    \/ ClientEnd /\ UNCHANGED <<rrfVars, completed, pyOutcome, searchVars>>

MigrationSpec == Init /\ [][MigrationNext]_vars

----------------------------------------------------------------------------
(* Vocabulary of the properties *)

Returned == pc = "returned"

KeywordIds == [j \in 1..Len(keywordResults) |-> keywordResults[j].id]

SemanticIds == [j \in 1..Len(semanticResults) |-> semanticResults[j].id]

ResultIds == [j \in 1..Len(result) |-> result[j].id]

AllIds == IdsOf(keywordResults) \cup IdsOf(semanticResults)

\* 1-based position of an id in a list that contains it
RankIn(rows, id) == CHOOSE j \in 1..Len(rows) : rows[j].id = id

\* weight / (k + rank) if the list contains the id, else 0
TermOf(rows, id, weight) ==
    IF id \in IdsOf(rows) THEN <<weight, k + RankIn(rows, id)>> ELSE Zero

ExpectedScore(id) ==
    FracAdd(TermOf(keywordResults, id, keywordWeight),
            TermOf(semanticResults, id, semanticWeight))

ValidArguments == k > 0 /\ keywordWeight >= 0 /\ semanticWeight >= 0 /\ limit >= 0

----------------------------------------------------------------------------
(* The concrete scenario: keyword = [1, 2], semantic = [2, 3], k = 60 *)

ScenarioInputs ==
    /\ Returned
    /\ KeywordIds = <<1, 2>>
    /\ SemanticIds = <<2, 3>>
    /\ k = DefaultK

SortedIds == [j \in 1..Len(sorted) |-> sorted[j][1]]

ScoreIs(id, num, den) == MapHas(scores, id) /\ FracEq(scores.vals[id], <<num, den>>)

\* C1: with k > 0 and non-negative weights, the fused score of every id is the
\* sum, over the lists that contain it, of that list's weight / (k + 1-based
\* position); with k = 60, weights 1, keyword = [1,2], semantic = [2,3] the scores
\* are id1 = 1/61, id2 = 1/62 + 1/61, id3 = 1/62 and the order is id2, id1, id3.
C1_FusedScoreIsWeightedReciprocalRankSum ==
    (Returned /\ k > 0 /\ keywordWeight >= 0 /\ semanticWeight >= 0) =>
        /\ \A id \in AllIds :
             MapHas(scores, id) /\ FracEq(scores.vals[id], ExpectedScore(id))
        /\ \A j \in 1..Len(result) : FracEq(result[j].score, ExpectedScore(result[j].id))
        /\ (ScenarioInputs /\ keywordWeight = 1 /\ semanticWeight = 1) =>
             /\ ScoreIs(1, 1, 61)
             /\ ScoreIs(2, 61 + 62, 61 * 62)
             /\ ScoreIs(3, 1, 62)
             /\ SortedIds = <<2, 1, 3>>
             /\ (limit = DefaultLimit => ResultIds = <<2, 1, 3>>)

C1_Witness ==
    /\ ScenarioInputs
    /\ keywordWeight = 1
    /\ semanticWeight = 1
    /\ limit = DefaultLimit
    /\ ResultIds = <<2, 1, 3>>

WeightedScenario ==
    /\ ScenarioInputs
    /\ keywordWeight = 1
    /\ semanticWeight = 2
    /\ limit = DefaultLimit

\* C2 as stated: in the weighted scenario (weights keyword 1, semantic 2, k = 60,
\* limit 10) the scores are id2 = 2/61 + 1/62, id1 = 1/62, id3 = 2/62 and the
\* order is id2, id3, id1.
C2_WeightedScenarioAsStated ==
    WeightedScenario =>
        /\ ScoreIs(2, 2 * 62 + 61, 61 * 62)
        /\ ScoreIs(1, 1, 62)
        /\ ScoreIs(3, 2, 62)
        /\ ResultIds = <<2, 3, 1>>

\* C2 amended: in the weighted scenario the scores are id2 = 2/61 + 1/62,
\* id1 = 1/61 (keyword rank 1), id3 = 2/62, and the order is id2, id3, id1.
C2_WeightedScenario ==
    WeightedScenario =>
        /\ ScoreIs(2, 2 * 62 + 61, 61 * 62)
        /\ ScoreIs(1, 1, 61)
        /\ ScoreIs(3, 2, 62)
        /\ ResultIds = <<2, 3, 1>>
        /\ \A j \in 1..3 : FracEq(result[j].score, scores.vals[result[j].id])

C2_Witness == WeightedScenario /\ Len(result) = 3 /\ result[2].id = 3

\* C3: for every input and every limit >= 0 the output is ordered by
\* non-increasing score, has exactly min(limit, number of distinct ids) entries,
\* repeats no id, and no id left out has a strictly greater score than a
\* returned one.
C3_SortedTruncatedDistinct ==
    (Returned /\ limit >= 0) =>
        /\ \A i, j \in 1..Len(result) :
             i < j => ~FracLess(result[i].score, result[j].score)
        /\ Len(result) = Min(limit, Cardinality(AllIds))
        /\ \A i, j \in 1..Len(result) : result[i].id = result[j].id => i = j
        /\ \A j \in 1..Len(result) :
             /\ result[j].id \in AllIds
             /\ FracEq(result[j].score, scores.vals[result[j].id])
        /\ \A out \in AllIds \ { result[j].id : j \in 1..Len(result) } :
             \A j \in 1..Len(result) : ~FracLess(result[j].score, scores.vals[out])

C3_Witness ==
    /\ Returned
    /\ limit = 2
    /\ Cardinality(AllIds) = 3
    /\ Len(result) = 2
    /\ result[1].id \notin IdsOf(keywordResults)
    /\ FracLess(result[2].score, result[1].score)

----------------------------------------------------------------------------
(* Ties *)

InBoth(id) == id \in IdsOf(keywordResults) /\ id \in IdsOf(semanticResults)

KeywordOnly(id) == id \in IdsOf(keywordResults) /\ id \notin IdsOf(semanticResults)

SemanticOnly(id) == id \in IdsOf(semanticResults) /\ id \notin IdsOf(keywordResults)

\* the order in which the caller's lists first mention each id
EncounterOrder == KeywordIds \o SelectSeq(SemanticIds, SemanticOnly)

EncounterIndex(id) == CHOOSE j \in 1..Len(EncounterOrder) : EncounterOrder[j] = id

\* the stated tie-break rule lets a precede b
TieRuleAllows(a, b) ==
    IF InBoth(a) /\ InBoth(b)
    THEN RankIn(semanticResults, a) < RankIn(semanticResults, b)
    ELSE IF SemanticOnly(a) /\ KeywordOnly(b) THEN TRUE
    ELSE IF KeywordOnly(a) /\ SemanticOnly(b) THEN FALSE
    ELSE EncounterIndex(a) < EncounterIndex(b)

\* C4 as stated: two ids of equal score are ordered by the tie-break rule
\* (both in both lists: smaller semantic rank first; else semantic-only before
\* keyword-only; else encounter order), e.g. keyword = [A], semantic = [B] with
\* equal weights returns B before A.
C4_TieBreakAsStated ==
    (Returned /\ ValidArguments /\ keywordWeight > 0 /\ semanticWeight > 0) =>
        \A i, j \in 1..Len(result) :
            (i < j /\ FracEq(result[i].score, result[j].score))
                => TieRuleAllows(result[i].id, result[j].id)

\* C4 amended: two ids of equal score keep encounter order (keyword list first,
\* then the ids only the semantic list has, each in list order), whatever their
\* semantic ranks; keyword = [A], semantic = [B] with equal weights returns A
\* before B.
C4_TiesKeepEncounterOrder ==
    Returned =>
        /\ \A i, j \in 1..Len(result) :
             (i < j /\ FracEq(result[i].score, result[j].score))
                 => EncounterIndex(result[i].id) < EncounterIndex(result[j].id)
        /\ (/\ KeywordIds = <<1>>
            /\ SemanticIds = <<2>>
            /\ keywordWeight = semanticWeight
            /\ limit >= 2) => ResultIds = <<1, 2>>

C4_Witness ==
    /\ Returned
    /\ ValidArguments
    /\ KeywordIds = <<1, 2>>
    /\ SemanticIds = <<2, 1>>
    /\ keywordWeight = 1
    /\ semanticWeight = 1
    /\ ResultIds = <<1, 2>>
    /\ FracEq(result[1].score, result[2].score)

----------------------------------------------------------------------------
(* Content *)

ContentIn(rows, id) == rows[RankIn(rows, id)].content

\* C5 as stated: for an id in both lists the fused content is the keyword list's
\* content (first writer wins; the semantic pass never overwrites it).
C5_KeywordContentWins ==
    (Returned /\ ValidArguments /\ keywordWeight > 0 /\ semanticWeight > 0) =>
        \A j \in 1..Len(result) :
            InBoth(result[j].id) => result[j].content = ContentIn(keywordResults, result[j].id)

\* C5 amended: for an id in both lists the fused content is the semantic list's
\* content (last writer wins: the semantic pass overwrites what the keyword pass
\* recorded), returned whole; an id of one list carries that list's content.
C5_SemanticContentWins ==
    Returned =>
        \A j \in 1..Len(result) :
            /\ result[j].id \in IdsOf(semanticResults)
                 => result[j].content = ContentIn(semanticResults, result[j].id)
            /\ KeywordOnly(result[j].id)
                 => result[j].content = ContentIn(keywordResults, result[j].id)

C5_Witness ==
    /\ Returned
    /\ \E j \in 1..Len(result) :
         /\ InBoth(result[j].id)
         /\ ContentIn(keywordResults, result[j].id) # ContentIn(semanticResults, result[j].id)
         /\ result[j].content = ContentIn(semanticResults, result[j].id)

----------------------------------------------------------------------------
(* Arguments and boundaries *)

\* C6: fusion returns no result (it fails with InvalidArgument) whenever k <= 0,
\* a weight is negative or limit < 0.
C6_InvalidArgumentsRejected == Returned => ValidArguments

\* C7: two empty lists give an empty output without error, and limit = 0 gives an
\* empty output whatever the lists.
C7_EmptyBoundaries ==
    /\ (Returned /\ keywordResults = <<>> /\ semanticResults = <<>>) => result = <<>>
    /\ (Returned /\ limit = 0) => result = <<>>

C7_Witness ==
    /\ Returned
    /\ limit = 0
    /\ Len(keywordResults) = MaxLen
    /\ Len(sorted) >= 3
    /\ result = <<>>

\* the list that alone is non-empty, and its weight
OneListEmpty == (keywordResults = <<>>) # (semanticResults = <<>>)

Survivor == IF keywordResults = <<>> THEN semanticResults ELSE keywordResults

SurvivorWeight == IF keywordResults = <<>> THEN semanticWeight ELSE keywordWeight

\* C8: when exactly one list is empty (a failed retrieval replaced by an empty
\* list included), fusion returns the ids of the other list in that list's rank
\* order, truncated to limit, each with score weight / (k + rank).
C8_SingleListPassesThrough ==
    (Returned /\ ValidArguments /\ OneListEmpty) =>
        /\ Len(result) = Min(limit, Len(Survivor))
        /\ \A j \in 1..Len(result) :
             /\ result[j].id = Survivor[j].id
             /\ FracEq(result[j].score, <<SurvivorWeight, k + j>>)

C8_Witness ==
    /\ Returned
    /\ ValidArguments
    /\ failed = {"keyword"}
    /\ Len(semanticResults) = 2
    /\ semanticWeight = BoostedWeight
    /\ keywordWeight = 1
    /\ limit = 1
    /\ Len(result) = 1
    /\ result[1].id = semanticResults[1].id

----------------------------------------------------------------------------
(* Coverage and symmetry *)

UntruncatedIds == { sorted[j][1] : j \in 1..Len(sorted) }

PositiveWeightIds ==
    (IF keywordWeight > 0 THEN IdsOf(keywordResults) ELSE {})
        \cup (IF semanticWeight > 0 THEN IdsOf(semanticResults) ELSE {})

\* C9 as stated: the ids of the untruncated output are exactly the ids of the
\* lists whose weight is positive (an id only in a zero-weight list is left out).
C9_OnlyPositiveWeightIds ==
    (Returned /\ ValidArguments) => UntruncatedIds = PositiveWeightIds

\* C9 amended: the ids of the untruncated output are exactly the ids of either
\* list, whatever the weights; an id only in zero-weight lists is in the output
\* with score 0.
C9_AllIdsCovered ==
    Returned =>
        /\ UntruncatedIds = AllIds
        /\ Len(sorted) = Cardinality(AllIds)
        /\ \A j \in 1..Len(sorted) :
             sorted[j][1] \notin PositiveWeightIds /\ ValidArguments
                 => FracEq(sorted[j][2], Zero)

C9_Witness ==
    /\ Returned
    /\ ValidArguments
    /\ keywordWeight = 0
    /\ semanticWeight = 1
    /\ \E j \in 1..Len(result) : KeywordOnly(result[j].id) /\ FracEq(result[j].score, Zero)

SwappedScores == Passes(semanticResults, keywordResults, k, keywordWeight, semanticWeight).scores

\* C10: with equal weights and k > 0, fusing with the two lists exchanged gives
\* every id the same score.
C10_SwapKeepsScores ==
    (Returned /\ k > 0 /\ keywordWeight = semanticWeight) =>
        /\ DOMAIN SwappedScores.vals = DOMAIN scores.vals
        /\ \A id \in DOMAIN scores.vals : FracEq(SwappedScores.vals[id], scores.vals[id])

C10_Witness ==
    /\ Returned
    /\ k > 0
    /\ keywordWeight = 1
    /\ semanticWeight = 1
    /\ SwappedScores.keys # scores.keys
    /\ \E id \in Ids :
         /\ InBoth(id)
         /\ RankIn(keywordResults, id) # RankIn(semanticResults, id)
    /\ \E id \in Ids : KeywordOnly(id)

----------------------------------------------------------------------------
(* Monotonicity in the semantic weight *)

ScoresWithSemanticWeight(w) == Passes(keywordResults, semanticResults, k, keywordWeight, w).scores

\* C11: with k, both lists and the keyword weight fixed, raising the semantic
\* weight never lowers the score of an id of the semantic list and leaves the
\* score of every other id unchanged.
C11_SemanticWeightMonotone ==
    (Returned /\ k > 0) =>
        \A w \in Weights :
            w > semanticWeight =>
                LET raised == ScoresWithSemanticWeight(w)
                IN /\ DOMAIN raised.vals = DOMAIN scores.vals
                   /\ \A id \in DOMAIN scores.vals :
                        IF id \in IdsOf(semanticResults)
                        THEN ~FracLess(raised.vals[id], scores.vals[id])
                        ELSE FracEq(raised.vals[id], scores.vals[id])

C11_Witness ==
    /\ Returned
    /\ k > 0
    /\ keywordWeight = 1
    /\ semanticWeight = 1
    /\ \E id \in Ids : KeywordOnly(id)
    /\ \E id \in Ids :
         /\ InBoth(id)
         /\ FracLess(scores.vals[id], ScoresWithSemanticWeight(BoostedWeight).vals[id])

----------------------------------------------------------------------------
(* search_docs *)

\* C12: the LIMIT sent to the database is the passed limit when that is greater
\* than 0 and 10 otherwise, so it is strictly positive for every integer limit,
\* and at most that many rows are returned.
C12_PositiveLimitSent ==
    /\ \A j \in 1..Len(dbQueries) :
         /\ LimitOf(dbQueries[j]) = (IF sdArgs.limit > 0 THEN sdArgs.limit ELSE 10)
         /\ LimitOf(dbQueries[j]) > 0
    /\ sdPc = "returned" =>
         /\ Len(dbQueries) = 1
         /\ Len(sdResults) <= LimitOf(dbQueries[1])

C12_Witness ==
    /\ sdPc = "returned"
    /\ sdArgs.limit = 0
    /\ LimitOf(dbQueries[1]) = 10
    /\ Len(sdResults) = MaxRows

\* C13: with source 'tiger' the version has no effect (a call that differs only
\* in version issues the same query with the same parameters); with source
\* 'postgres' the query filters pages on exactly the requested version, 'latest'
\* being replaced by '18'.
C13_VersionOnlyFiltersPostgres ==
    \A j \in 1..Len(dbQueries) :
        LET q == dbQueries[j]
        IN IF sdArgs.source = "tiger"
           THEN /\ q.where = "none"
                /\ Len(q.params) = 2
                /\ \A v \in versions : IssuedQuery([sdArgs EXCEPT !.version = v], embedding) = q
           ELSE /\ q.where = "p.version = $2"
                /\ q.params[2] = (IF sdArgs.version = "latest" THEN "18" ELSE sdArgs.version)

C13_Witness ==
    /\ sdPc = "querying"
    /\ sdArgs.source = "postgres"
    /\ sdArgs.search_type = "semantic"
    /\ sdArgs.version = "latest"
    /\ dbQueries[1].params[2] = "18"

BlankQuery == \A i \in 1..Len(sdArgs.query) : sdArgs.query[i] \in Whitespace

\* C16: a call whose query is empty or only whitespace fails with 'Query must be
\* a non-empty string.' and neither calls the embedding service nor issues a
\* database query, whatever the other arguments.
C16_BlankQueryRejected ==
    (sdPc # "idle" /\ BlankQuery) =>
        /\ sdPc = "thrown"
        /\ sdError = "Query must be a non-empty string."
        /\ embedLog = <<>>
        /\ embedStatus = "none"
        /\ dbQueries = <<>>
        /\ sdResults = <<>>

C16_Witness ==
    /\ sdPc = "thrown"
    /\ sdArgs.query = <<"SP", "TAB">>
    /\ sdArgs.search_type = "semantic"
    /\ sdArgs.source = "postgres"
    /\ sdError = "Query must be a non-empty string."

\* C17: a call issues at most one database query, and only after every earlier
\* step succeeded: a semantic search calls embed first and queries only once it
\* resolved (a rejected embed propagates and no query is issued); a keyword
\* search never calls embed.
C17_QueryOnlyAfterEmbedding ==
    /\ Len(dbQueries) <= 1
    /\ Len(embedLog) <= 1
    /\ sdArgs.search_type = "keyword" => (embedLog = <<>> /\ embedStatus = "none")
    /\ (sdArgs.search_type = "semantic" /\ dbQueries # <<>>)
         => (embedStatus = "resolved" /\ embedLog = <<sdArgs.query>>)
    /\ embedStatus = "pending" => (dbQueries = <<>> /\ sdPc = "embedding")
    /\ embedStatus = "rejected"
         => (dbQueries = <<>> /\ sdPc = "thrown" /\ sdError = "embed rejected")
    /\ sdPc \in {"querying", "returned"} => Len(dbQueries) = 1
    /\ (sdPc \in {"embedding", "querying", "returned"}) => ~BlankQuery

C17_Witness ==
    /\ sdPc = "thrown"
    /\ sdArgs.search_type = "semantic"
    /\ embedStatus = "rejected"
    /\ embedLog # <<>>
    /\ dbQueries = <<>>

----------------------------------------------------------------------------
(* The migration *)

EndCalls == Cardinality({ i \in 1..Len(migLog) : migLog[i] = "end" })

\* the calls made inside the try block
TryCalls == SelectSeq(migLog, LAMBDA c : c # "end")

\* C18: in up() and down() client.end() is called exactly once on every path,
\* also when connect() or a statement fails; a failed statement stops the
\* remaining ones and its error reaches the caller; up() creates the
\* pg_textsearch extension before either BM25 index.
C18_ClientClosedOnEveryPath ==
    /\ EndCalls <= 1
    /\ migPc \in {"connect", "statements", "finally"} => EndCalls = 0
    /\ migPc = "settled" => (EndCalls = 1 /\ migLog[Len(migLog)] = "end")
    /\ \A i \in 1..Len(TryCalls) :
         TryCalls[i] = (IF i = 1 THEN "connect" ELSE StatementsOf(migFn)[i - 1])
    /\ migError # "none" => TryCalls[Len(TryCalls)] = migError
    /\ (migPc = "settled" /\ migError # "none")
         => (migOutcome = "rejected" /\ migThrown = migError)
    /\ (migPc = "settled" /\ migError = "none")
         => (migOutcome = "resolved" /\ TryCalls = <<"connect">> \o StatementsOf(migFn))
    /\ \A i \in 1..Len(migLog) :
         migLog[i] \in {CreateTimescaleIndex, CreatePostgresIndex}
             => \E j \in 1..(i - 1) : migLog[j] = CreateExtension
    /\ indexes # {} => "pg_textsearch" \in extensions

C18_Witness ==
    /\ migPc = "settled"
    /\ migFn = "up"
    /\ migError = CreateTimescaleIndex
    /\ migLog = <<"connect", CreateExtension, CreateTimescaleIndex, "end">>
    /\ migOutcome = "rejected"
    /\ indexes = {}

----------------------------------------------------------------------------
(* The two snippets side by side *)

SameResults(py, ts) ==
    /\ Len(py) = Len(ts)
    /\ \A j \in 1..Len(ts) :
         /\ py[j].id = ts[j].id
         /\ py[j].content = ts[j].content
         /\ FracEq(py[j].score, ts[j].score)

\* some row's rank is the negative of k: 1 / (k + rank) divides by zero
ZeroDivisor ==
    \E rank \in 1..Max(Len(keywordResults), Len(semanticResults)) : k + rank = 0

\* C14: for every pair of lists, every k and every limit the Python rrf_fusion
\* and the TypeScript rrfFusion return the same ids in the same order with the
\* same scores and contents.
C14_SnippetsIdentical ==
    Returned => (pyOutcome.raised = "none" /\ SameResults(pyOutcome.value, result))

\* what does hold: the snippets agree whenever no rank is the negative of k
SnippetsAgreeWithoutZeroDivisor ==
    (Returned /\ ~ZeroDivisor) =>
        (pyOutcome.raised = "none" /\ SameResults(pyOutcome.value, result))

SnippetsDisagreeOnlyByRaising ==
    (Returned /\ ZeroDivisor) => (pyOutcome.raised = "ZeroDivisionError")

----------------------------------------------------------------------------
(* Completion order *)

Precedes(a, b) ==
    \/ FracLess(ExpectedScore(b), ExpectedScore(a))
    \/ /\ FracEq(ExpectedScore(a), ExpectedScore(b))
       /\ EncounterIndex(a) < EncounterIndex(b)

ExpectedContent(id) ==
    IF id \in IdsOf(semanticResults)
    THEN ContentIn(semanticResults, id) ELSE ContentIn(keywordResults, id)

ExpectedLength ==
    IF limit >= 0 THEN Min(limit, Cardinality(AllIds))
    ELSE Max(Cardinality(AllIds) + limit, 0)

\* C15: with the two retrievals issued concurrently and fused once both are
\* back, the fused output (ids, order with tie order, scores, contents) is the
\* one fixed by which list is the keyword list and which the semantic list,
\* whichever retrieval completed first.
C15_OutputIgnoresCompletionOrder ==
    Returned =>
        /\ Len(sorted) = Cardinality(AllIds)
        /\ UntruncatedIds = AllIds
        /\ \A i, j \in 1..Len(sorted) : i < j => Precedes(sorted[i][1], sorted[j][1])
        /\ Len(result) = ExpectedLength
        /\ \A j \in 1..Len(result) :
             /\ result[j].id = sorted[j][1]
             /\ FracEq(result[j].score, ExpectedScore(result[j].id))
             /\ result[j].content = ExpectedContent(result[j].id)

C15_Witness ==
    /\ Returned
    /\ completed = <<"semantic", "keyword">>
    /\ KeywordIds = <<1, 2>>
    /\ SemanticIds = <<1, 3>>
    /\ semanticWeight = DefaultWeight
    /\ ResultIds = <<1, 2, 3>>
    /\ FracEq(result[2].score, result[3].score)

====
